---------------------------- MODULE Spec2Model ----------------------------
(***************************************************************************)
(* Model of agent.py: the Groq-powered parser generator.                   *)
(*                                                                         *)
(*   Spec          the controller main(): attempts, syntax check, persist, *)
(*                 test run, mismatch extraction, repair prompt, fallback. *)
(*   SpecSanitize  the pure function strip_code_fences on bounded texts.   *)
(***************************************************************************)
EXTENDS Integers, Sequences, FiniteSets, TLC

VARIABLES
    pc,             \* position in main() / in the sanitizer harness
    target,         \* args.target
    max_attempts,   \* cfg["max_attempts"]
    expected_csv,   \* rows of the expected CSV fixture
    attempt,        \* loop variable of the for loop
    sys_prompt,     \* sys_prompt
    user_prompt,    \* user_prompt
    code,           \* code (after strip_code_fences)
    parser_file,    \* file at parser_path
    test_file,      \* file tests/test_<target>.py
    quarantine,     \* file artifacts/<parser_path.name>
    passed,         \* passed, of the last run_tests()
    output,         \* output, of the last run_tests()
    mismatches,     \* mismatches
    exit_code,      \* exit status of the process, -1 while it runs
    raised,         \* the uncaught exception that ended the run, if any
    sent,           \* the last request to the endpoint and the reply's status
    hist,           \* counts of what the run has done so far
    text,           \* sanitizer harness: the input text
    once,           \* sanitizer harness: strip_code_fences(text)
    twice           \* sanitizer harness: strip_code_fences(once)

vars == << pc, target, max_attempts, expected_csv, attempt, sys_prompt,
           user_prompt, code, parser_file, test_file, quarantine, passed,
           output, mismatches, exit_code, raised, sent, hist, text, once, twice >>

ctlVars == << target, max_attempts, expected_csv, attempt, sys_prompt,
              user_prompt, code, parser_file, test_file, quarantine, passed,
              output, mismatches, exit_code, raised, sent, hist >>

sanVars == << text, once, twice >>

-----------------------------------------------------------------------------
(* Bounds *)

MaxLen == 7             \* longest text given to strip_code_fences
MaxAttemptsBound == 2   \* largest configured max_attempts explored
MaxRows == 2            \* most rows in the fixture and in a candidate's output
MaxDiffRows == 6        \* most rows given to mismatch extraction on its own

-----------------------------------------------------------------------------
(* Texts: sequences of characters *)

\* characters are one-element strings; the backtick is written "BQ"
Tick == "BQ"
Chars == {Tick, " ", "x"}
Whitespace == {" ", "\n", "\t"}

Texts == UNION {[1..n -> Chars] : n \in 0..MaxLen}

\* the pattern of re.findall at agent.py:71: six backticks, no group
FencePattern == << Tick, Tick, Tick, Tick, Tick, Tick >>

MatchesAt(t, i) ==
    /\ i + Len(FencePattern) - 1 <= Len(t)
    /\ \A k \in 1..Len(FencePattern) : t[i + k - 1] = FencePattern[k]

\* re.findall: the non-overlapping matches, scanning left to right
RECURSIVE FindAllFrom(_, _)
FindAllFrom(t, i) ==
    IF i > Len(t) THEN << >>
    ELSE IF MatchesAt(t, i)
         THEN << SubSeq(t, i, i + Len(FencePattern) - 1) >>
                  \o FindAllFrom(t, i + Len(FencePattern))
         ELSE FindAllFrom(t, i + 1)

FindAll(t) == FindAllFrom(t, 1)

\* str.strip(): drop leading and trailing whitespace
RECURSIVE LStrip(_)
LStrip(t) ==
    IF t # << >> /\ Head(t) \in Whitespace THEN LStrip(Tail(t)) ELSE t

RECURSIVE RStrip(_)
RStrip(t) ==
    IF t # << >> /\ t[Len(t)] \in Whitespace
    THEN RStrip(SubSeq(t, 1, Len(t) - 1))
    ELSE t

\* Strip dropping at most one whitespace character from each end
StripOne(t) ==
    LET l == IF t # << >> /\ Head(t) \in Whitespace THEN Tail(t) ELSE t
    IN  IF l # << >> /\ l[Len(l)] \in Whitespace
        THEN SubSeq(l, 1, Len(l) - 1)
        ELSE l

Strip(t) == RStrip(LStrip(t))

strip_code_fences(t) ==
    LET code_blocks == FindAll(t)
    IN  IF code_blocks # << >> THEN Strip(code_blocks[1]) ELSE Strip(t)

-----------------------------------------------------------------------------
(* Candidates: what the endpoint returns and what Python does with it *)

RowVals == {"r1", "r2"}
Tables == UNION {[1..n -> RowVals] : n \in 0..MaxRows}

\* the expected CSV; row values are only names, so its first row is "r1"
Fixtures == {t \in Tables : t = << >> \/ t[1] = "r1"}

\* What the interpreter does with a candidate source:
\*   syntax_error  compile() raises SyntaxError
\*   raises        loading the module or calling parse raises an Exception
\*   exits         loading the module or calling parse raises SystemExit(rc)
\*   returns       parse returns a frame with these rows
Sem(kind, rows, rc) == [kind |-> kind, rows |-> rows, rc |-> rc]
SemSyntaxError == Sem("syntax_error", << >>, 0)
SemRaises == Sem("raises", << >>, 0)
Semantics ==
    {SemSyntaxError, SemRaises}
        \cup {Sem("exits", << >>, rc) : rc \in {0, 1}}
        \cup {Sem("returns", rows, 0) : rows \in Tables}

NoText == << >>
NoCode == [text |-> NoText, sem |-> Sem("none", << >>, 0)]

PlainTexts == { << "x" >>, << " ", "x", " " >> }
FencedTexts == { << Tick, Tick, Tick, "x", Tick, Tick, Tick >>,
                 << "x", Tick, Tick, Tick, Tick, Tick, Tick >> }

\* message contents the endpoint may return; a text with backticks in it
\* is not valid Python
Completions ==
    {[text |-> t, sem |-> s] : t \in PlainTexts, s \in Semantics}
        \cup {[text |-> t, sem |-> SemSyntaxError] : t \in FencedTexts}

\* code = strip_code_fences(code), agent.py:201 and :276
Sanitized(c) == [text |-> strip_code_fences(c.text), sem |-> c.sem]

\* compile(code, parser_path.name, 'exec') returns (TRUE) or raises
\* SyntaxError (FALSE)
Compiles(c) == c.sem.kind # "syntax_error"

-----------------------------------------------------------------------------
(* The generation endpoint *)

HttpOk == 200
ErrorStatuses == {429, 500}
ErrorBodies == {"rate limit exceeded", "internal error"}

Responses ==
    {[status_code |-> HttpOk, text |-> "ok", content |-> c] : c \in Completions}
        \cup {[status_code |-> st, text |-> b, content |-> NoCode] :
                 st \in ErrorStatuses, b \in ErrorBodies}

NoError == [kind |-> "none", status_code |-> 0, text |-> ""]

\* call_groq without the check of the status code
call_groq_unchecked(resp) ==
    [ok |-> TRUE, error |-> NoError, value |-> resp.content]

call_groq(resp) ==
    IF resp.status_code # HttpOk
    THEN [ok |-> FALSE,
          error |-> [kind |-> "RuntimeError", status_code |-> resp.status_code,
                     text |-> resp.text],
          value |-> NoCode]
    ELSE [ok |-> TRUE, error |-> NoError, value |-> resp.content]

-----------------------------------------------------------------------------
(* Prompts *)

NoOutput == [run |-> 0, passed |-> FALSE]
NoTable == [placeholder |-> FALSE, rows |-> << >>]
NoMismatches == [expected |-> << >>, actual |-> << >>]

UserPrompt(kind, c, trace, table) ==
    [kind |-> kind, current_code |-> c, failure_trace |-> trace,
     mismatch_rows |-> table]
NoPrompt == UserPrompt("none", NoCode, NoOutput, NoTable)

\* a request (agent.py:97-105) with the status and body of its reply
Exchange(system, user, resp) ==
    [system |-> system, user |-> user, status_code |-> resp.status_code,
     text |-> resp.text]
NoExchange ==
    [system |-> "none", user |-> NoPrompt, status_code |-> 0, text |-> ""]

build_initial_prompt ==
    << "initial", UserPrompt("context", NoCode, NoOutput, NoTable) >>

Min(a, b) == IF a < b THEN a ELSE b

\* zip(xs, ys): pairs up to the shorter of the two
Zip(xs, ys) == [i \in 1..Min(Len(xs), Len(ys)) |-> << xs[i], ys[i] >>]

\* build_repair_prompt that never renders the mismatch rows
build_repair_prompt_no_table(c, failure_output, m) ==
    << "repair",
       UserPrompt("repair", c, failure_output,
                  [placeholder |-> TRUE, rows |-> << >>]) >>

\* agent.py:142-170
build_repair_prompt(c, failure_output, m) ==
    LET mismatch_table ==
            IF m.expected # << >>
            THEN [placeholder |-> FALSE, rows |-> Zip(m.expected, m.actual)]
            ELSE [placeholder |-> TRUE, rows |-> << >>]
    IN  << "repair", UserPrompt("repair", c, failure_output, mismatch_table) >>

\* a syntax-fix request that keeps the layout of the repair request
SyntaxFixPromptWrapped(c) ==
    << "syntax_fix", UserPrompt("repair", c, NoOutput, NoTable) >>

\* agent.py:213-214
SyntaxFixPrompt(c) == << "syntax_fix", UserPrompt("raw_code", c, NoOutput, NoTable) >>

\* agent.py:264-274
FallbackPrompt == << "fallback", UserPrompt("page_text", NoCode, NoOutput, NoTable) >>

-----------------------------------------------------------------------------
(* Files, the test suite and mismatch extraction *)

Absent == [exists |-> FALSE, content |-> NoCode]
File(c) == [exists |-> TRUE, content |-> c]

\* WriteText that keeps a file that is already there
WriteTextIfMissing(old, c) == IF old.exists THEN old ELSE File(c)

\* Path.write_text: the file holds the new content, whatever it held before
WriteText(old, c) == File(c)

\* the parser the repository ships at custom_parsers/icici_parser.py: it
\* calls parse on a path of the author's machine when it is loaded
ShippedParser == File([text |-> << "x" >>, sem |-> SemRaises])

\* the assertion of the companion test:
\*   df.astype(str).equals(expected.astype(str))
TemplateTestPasses(file, expected) ==
    /\ file.exists
    /\ file.content.sem.kind = "returns"
    /\ file.content.sem.rows = expected

\* run_tests(): pytest over the tests directory; a companion test that is
\* not the template's may pass or fail whatever the parser does
run_tests(file, test, expected, n) ==
    LET verdicts == IF test = "template"
                    THEN {TemplateTestPasses(file, expected)}
                    ELSE BOOLEAN
    IN  {[passed |-> v, output |-> [run |-> n, passed |-> v]] : v \in verdicts}

MismatchLimit == 5

\* the slice [:n] without its limit
TakeAll(s, n) == s

\* the slice [:n]
Take(s, n) == SubSeq(s, 1, Min(n, Len(s)))

RECURSIVE Differing(_)
Differing(pairs) ==
    IF pairs = << >> THEN << >>
    ELSE (IF Head(pairs)[1] # Head(pairs)[2] THEN << Head(pairs) >> ELSE << >>)
            \o Differing(Tail(pairs))

\* agent.py:251-255
MismatchedRows(expected, actual) ==
    LET mismatched == Differing(Zip(expected, actual))
        first == Take(mismatched, MismatchLimit)
    IN  [expected |-> [i \in 1..Len(first) |-> first[i][1]],
         actual |-> [i \in 1..Len(first) |-> first[i][2]]]

\* agent.py:244-258: the try block and its except Exception clause.
\* SystemExit is not an Exception, so it leaves the block uncaught.
ExtractMismatches(file, expected) ==
    LET sem == file.content.sem
    IN  IF sem.kind = "exits"
        THEN [exited |-> TRUE, rc |-> sem.rc, mismatches |-> NoMismatches]
        ELSE IF sem.kind = "returns" /\ file.exists
        THEN [exited |-> FALSE, rc |-> 0,
              mismatches |-> MismatchedRows(expected, sem.rows)]
        ELSE [exited |-> FALSE, rc |-> 0, mismatches |-> NoMismatches]

NoHistory ==
    [gen |-> 0, fb_gen |-> 0, tests |-> 0, fb_tests |-> 0, extracts |-> 0,
     repairs |-> 0, fallbacks |-> 0, parser_writes |-> 0, test_writes |-> 0,
     quarantine_writes |-> 0, syntax_fails |-> 0, test_fails |-> 0,
     test_passes |-> 0, main_last |-> "none", fb_last |-> "none",
     fb_syntax |-> 0, fb_writes |-> 0, failed_at |-> 0]

-----------------------------------------------------------------------------
(* Spec: the controller main() *)

Targets == {"icici", "hdfc"}
BANK_CONFIG == {"icici"}        \* the keys of the configuration table

Init ==
    /\ pc = "main"
    /\ target \in Targets
    /\ max_attempts \in 0..MaxAttemptsBound
    /\ expected_csv \in Fixtures
    /\ attempt = 0
    /\ sys_prompt = "none"
    /\ user_prompt = NoPrompt
    /\ code = NoCode
    /\ parser_file \in {Absent, ShippedParser}
    /\ test_file \in {"absent", "template", "custom"}
    /\ quarantine = Absent
    /\ passed = FALSE
    /\ output = NoOutput
    /\ mismatches = NoMismatches
    /\ exit_code = -1
    /\ raised = NoError
    /\ sent = NoExchange
    /\ hist = NoHistory
    /\ text = NoText
    /\ once = NoText
    /\ twice = NoText

\* sys.exit(rc), an uncaught exception (rc = 1), or main returning (rc = 0)
Exit(rc) ==
    /\ pc' = "done"
    /\ exit_code' = rc

\* hist: one more of `field`, and the last thing the main loop did
Count(field, last) ==
    hist' = [hist EXCEPT ![field] = @ + 1, !.main_last = last]

\* hist: one more of `field`, and the last thing the fallback did
CountFallback(field, last) ==
    hist' = [hist EXCEPT ![field] = @ + 1, !.fb_last = last]

\* Main without the check of the target against the configuration table
MainUnchecked ==
    /\ pc = "main"
    /\ sys_prompt' = build_initial_prompt[1]
    /\ user_prompt' = build_initial_prompt[2]
    /\ pc' = "loop"
    /\ UNCHANGED << target, max_attempts, expected_csv, attempt, code,
                    parser_file, test_file, quarantine, passed, output,
                    mismatches, exit_code, raised, sent, hist >>
    /\ UNCHANGED sanVars

\* agent.py:175-196
Main ==
    /\ pc = "main"
    /\ IF target \notin BANK_CONFIG
       THEN /\ Exit(1)
            /\ UNCHANGED << sys_prompt, user_prompt >>
       ELSE /\ sys_prompt' = build_initial_prompt[1]
            /\ user_prompt' = build_initial_prompt[2]
            /\ pc' = "loop"
            /\ UNCHANGED exit_code
    /\ UNCHANGED << target, max_attempts, expected_csv, attempt, code,
                    parser_file, test_file, quarantine, passed, output,
                    mismatches, raised, sent, hist >>
    /\ UNCHANGED sanVars

\* the head of a loop that does not advance its counter
LoopNextNoIncrement ==
    /\ pc = "loop"
    /\ IF attempt < max_attempts
       THEN /\ attempt' = attempt
            /\ pc' = "generate"
            /\ UNCHANGED exit_code
       ELSE /\ Exit(0)
            /\ UNCHANGED attempt
    /\ UNCHANGED << target, max_attempts, expected_csv, sys_prompt,
                    user_prompt, code, parser_file, test_file, quarantine,
                    passed, output, mismatches, raised, sent, hist >>
    /\ UNCHANGED sanVars

\* agent.py:198, the head of the for loop; when the range is used up main
\* returns and the interpreter exits with status 0
LoopNext ==
    /\ pc = "loop"
    /\ IF attempt < max_attempts
       THEN /\ attempt' = attempt + 1
            /\ pc' = "generate"
            /\ UNCHANGED exit_code
       ELSE /\ Exit(0)
            /\ UNCHANGED attempt
    /\ UNCHANGED << target, max_attempts, expected_csv, sys_prompt,
                    user_prompt, code, parser_file, test_file, quarantine,
                    passed, output, mismatches, raised, sent, hist >>
    /\ UNCHANGED sanVars

\* agent.py:199-201
Generate ==
    /\ pc = "generate"
    /\ \E resp \in Responses :
         LET r == call_groq(resp)
         IN  /\ sent' = Exchange(sys_prompt, user_prompt, resp)
             /\ Count("gen", IF r.ok THEN "generated" ELSE "gen_error")
             /\ IF r.ok
                THEN /\ code' = Sanitized(r.value)
                     /\ pc' = "syntax"
                     /\ UNCHANGED << exit_code, raised >>
                ELSE /\ raised' = r.error
                     /\ Exit(1)
                     /\ UNCHANGED code
    /\ UNCHANGED << target, max_attempts, expected_csv, attempt, sys_prompt,
                    user_prompt, parser_file, test_file, quarantine, passed,
                    output, mismatches >>
    /\ UNCHANGED sanVars

\* SyntaxCheck writing the invalid candidate of the final attempt to
\* parser_path, not to the artifacts directory
SyntaxCheckQuarantineAtDestination ==
    /\ pc = "syntax"
    /\ IF Compiles(code)
       THEN /\ pc' = "persist"
            /\ hist' = [hist EXCEPT !.main_last = "compiled"]
            /\ UNCHANGED << sys_prompt, user_prompt, parser_file, exit_code >>
       ELSE IF attempt = max_attempts
       THEN /\ parser_file' = WriteText(parser_file, code)
            /\ hist' = [hist EXCEPT !.quarantine_writes = @ + 1,
                                    !.syntax_fails = @ + 1,
                                    !.main_last = "syntax_fail"]
            /\ Exit(1)
            /\ UNCHANGED << sys_prompt, user_prompt >>
       ELSE /\ sys_prompt' = SyntaxFixPrompt(code)[1]
            /\ user_prompt' = SyntaxFixPrompt(code)[2]
            /\ Count("syntax_fails", "syntax_fail")
            /\ pc' = "loop"
            /\ UNCHANGED << parser_file, exit_code >>
    /\ UNCHANGED << target, max_attempts, expected_csv, attempt, code,
                    quarantine, test_file, passed, output, mismatches,
                    raised, sent >>
    /\ UNCHANGED sanVars

\* agent.py:204-215
SyntaxCheck ==
    /\ pc = "syntax"
    /\ IF Compiles(code)
       THEN /\ pc' = "persist"
            /\ hist' = [hist EXCEPT !.main_last = "compiled"]
            /\ UNCHANGED << sys_prompt, user_prompt, quarantine, exit_code >>
       ELSE IF attempt = max_attempts
       THEN /\ quarantine' = WriteText(quarantine, code)
            /\ hist' = [hist EXCEPT !.quarantine_writes = @ + 1,
                                    !.syntax_fails = @ + 1,
                                    !.main_last = "syntax_fail"]
            /\ Exit(1)
            /\ UNCHANGED << sys_prompt, user_prompt >>
       ELSE /\ sys_prompt' = SyntaxFixPrompt(code)[1]
            /\ user_prompt' = SyntaxFixPrompt(code)[2]
            /\ Count("syntax_fails", "syntax_fail")
            /\ pc' = "loop"
            /\ UNCHANGED << quarantine, exit_code >>
    /\ UNCHANGED << target, max_attempts, expected_csv, attempt, code,
                    parser_file, test_file, passed, output, mismatches,
                    raised, sent >>
    /\ UNCHANGED sanVars

\* agent.py:222-233: the companion test is written only when it is missing
\* EnsureTestFile without the test_file.exists() check
EnsureTestFileAlways(test) == [file |-> "template", wrote |-> TRUE]

EnsureTestFile(test) ==
    IF test = "absent"
    THEN [file |-> "template", wrote |-> TRUE]
    ELSE [file |-> test, wrote |-> FALSE]

\* agent.py:217-233
Persist ==
    /\ pc = "persist"
    /\ parser_file' = WriteText(parser_file, code)
    /\ test_file' = EnsureTestFile(test_file).file
    /\ hist' = [hist EXCEPT !.parser_writes = @ + 1,
                            !.test_writes =
                                IF EnsureTestFile(test_file).wrote
                                THEN @ + 1 ELSE @,
                            !.main_last = "persisted"]
    /\ pc' = "test"
    /\ UNCHANGED << target, max_attempts, expected_csv, attempt, sys_prompt,
                    user_prompt, code, quarantine, passed, output,
                    mismatches, exit_code, raised, sent >>
    /\ UNCHANGED sanVars

\* Test without the sys.exit(0) of a passing run
TestPassContinues ==
    /\ pc = "test"
    /\ \E r \in run_tests(parser_file, test_file, expected_csv, hist.tests + 1) :
         /\ passed' = r.passed
         /\ output' = r.output
         /\ hist' = [hist EXCEPT
                        !.tests = @ + 1,
                        !.test_passes = IF r.passed THEN @ + 1 ELSE @,
                        !.test_fails = IF r.passed THEN @ ELSE @ + 1,
                        !.failed_at = IF r.passed THEN @ ELSE attempt,
                        !.main_last = IF r.passed THEN "test_pass" ELSE "test_fail"]
         /\ pc' = "extract"
    /\ UNCHANGED << target, max_attempts, expected_csv, attempt, sys_prompt,
                    user_prompt, code, parser_file, test_file, quarantine,
                    mismatches, exit_code, raised, sent >>
    /\ UNCHANGED sanVars

\* agent.py:235-241
Test ==
    /\ pc = "test"
    /\ \E r \in run_tests(parser_file, test_file, expected_csv, hist.tests + 1) :
         /\ passed' = r.passed
         /\ output' = r.output
         /\ hist' = [hist EXCEPT
                        !.tests = @ + 1,
                        !.test_passes = IF r.passed THEN @ + 1 ELSE @,
                        !.test_fails = IF r.passed THEN @ ELSE @ + 1,
                        !.failed_at = IF r.passed THEN @ ELSE attempt,
                        !.main_last = IF r.passed THEN "test_pass" ELSE "test_fail"]
         /\ IF r.passed
            THEN Exit(0)
            ELSE /\ pc' = "extract"
                 /\ UNCHANGED exit_code
    /\ UNCHANGED << target, max_attempts, expected_csv, attempt, sys_prompt,
                    user_prompt, code, parser_file, test_file, quarantine,
                    mismatches, raised, sent >>
    /\ UNCHANGED sanVars

\* agent.py:244-258
Extract ==
    /\ pc = "extract"
    /\ LET e == ExtractMismatches(parser_file, expected_csv)
       IN  IF e.exited
           THEN /\ Exit(e.rc)
                /\ Count("extracts", "extract_exit")
                /\ UNCHANGED mismatches
           ELSE /\ mismatches' = e.mismatches
                /\ Count("extracts", "extracted")
                /\ pc' = "decide"
                /\ UNCHANGED exit_code
    /\ UNCHANGED << target, max_attempts, expected_csv, attempt, sys_prompt,
                    user_prompt, code, parser_file, test_file, quarantine,
                    passed, output, raised, sent >>
    /\ UNCHANGED sanVars

\* agent.py:260 (not taken) and :291
Repair ==
    /\ pc = "decide"
    /\ attempt # max_attempts
    /\ sys_prompt' = build_repair_prompt(code, output, mismatches)[1]
    /\ user_prompt' = build_repair_prompt(code, output, mismatches)[2]
    /\ Count("repairs", "repaired")
    /\ pc' = "loop"
    /\ UNCHANGED << target, max_attempts, expected_csv, attempt, code,
                    parser_file, test_file, quarantine, passed, output,
                    mismatches, exit_code, raised, sent >>
    /\ UNCHANGED sanVars

\* EnterFallback without the test attempt == max_attempts
EnterFallbackEarly ==
    /\ pc = "decide"
    /\ CountFallback("fallbacks", "prompt")
    /\ pc' = "fb_generate"
    /\ UNCHANGED << target, max_attempts, expected_csv, attempt, sys_prompt,
                    user_prompt, code, parser_file, test_file, quarantine,
                    passed, output, mismatches, exit_code, raised, sent >>
    /\ UNCHANGED sanVars

\* agent.py:260-274
EnterFallback ==
    /\ pc = "decide"
    /\ attempt = max_attempts
    /\ CountFallback("fallbacks", "prompt")
    /\ pc' = "fb_generate"
    /\ UNCHANGED << target, max_attempts, expected_csv, attempt, sys_prompt,
                    user_prompt, code, parser_file, test_file, quarantine,
                    passed, output, mismatches, exit_code, raised, sent >>
    /\ UNCHANGED sanVars

\* agent.py:275-276
FallbackGenerate ==
    /\ pc = "fb_generate"
    /\ \E resp \in Responses :
         LET r == call_groq(resp)
         IN  /\ sent' = Exchange(FallbackPrompt[1], FallbackPrompt[2], resp)
             /\ CountFallback("fb_gen", IF r.ok THEN "generated" ELSE "gen_error")
             /\ IF r.ok
                THEN /\ code' = Sanitized(r.value)
                     /\ pc' = "fb_syntax"
                     /\ UNCHANGED << exit_code, raised >>
                ELSE /\ raised' = r.error
                     /\ Exit(1)
                     /\ UNCHANGED code
    /\ UNCHANGED << target, max_attempts, expected_csv, attempt, sys_prompt,
                    user_prompt, parser_file, test_file, quarantine, passed,
                    output, mismatches >>
    /\ UNCHANGED sanVars

\* FallbackSyntax with a fallback that is tried again after a syntax failure
FallbackSyntaxRetrying ==
    /\ pc = "fb_syntax"
    /\ IF Compiles(code)
       THEN /\ pc' = "fb_persist"
            /\ hist' = [hist EXCEPT !.fb_syntax = @ + 1, !.fb_last = "compiled"]
       ELSE /\ pc' = "fb_generate"
            /\ hist' = [hist EXCEPT !.fb_syntax = @ + 1, !.fb_last = "syntax_fail"]
    /\ UNCHANGED << target, max_attempts, expected_csv, attempt, sys_prompt,
                    user_prompt, code, parser_file, test_file, quarantine,
                    passed, output, mismatches, exit_code, raised, sent >>
    /\ UNCHANGED sanVars

\* agent.py:277-281
FallbackSyntax ==
    /\ pc = "fb_syntax"
    /\ IF Compiles(code)
       THEN /\ pc' = "fb_persist"
            /\ hist' = [hist EXCEPT !.fb_syntax = @ + 1, !.fb_last = "compiled"]
            /\ UNCHANGED exit_code
       ELSE /\ hist' = [hist EXCEPT !.fb_syntax = @ + 1, !.fb_last = "syntax_fail"]
            /\ Exit(1)
    /\ UNCHANGED << target, max_attempts, expected_csv, attempt, sys_prompt,
                    user_prompt, code, parser_file, test_file, quarantine,
                    passed, output, mismatches, raised, sent >>
    /\ UNCHANGED sanVars

\* agent.py:282
FallbackPersist ==
    /\ pc = "fb_persist"
    /\ parser_file' = WriteText(parser_file, code)
    /\ hist' = [hist EXCEPT !.parser_writes = @ + 1, !.fb_writes = @ + 1,
                            !.fb_last = "persisted"]
    /\ pc' = "fb_test"
    /\ UNCHANGED << target, max_attempts, expected_csv, attempt, sys_prompt,
                    user_prompt, code, test_file, quarantine, passed, output,
                    mismatches, exit_code, raised, sent >>
    /\ UNCHANGED sanVars

\* FallbackTest reporting success whatever the test run says
FallbackTestAlwaysSucceeds ==
    /\ pc = "fb_test"
    /\ \E r \in run_tests(parser_file, test_file, expected_csv, hist.tests + 1) :
         /\ passed' = r.passed
         /\ hist' = [hist EXCEPT
                        !.tests = @ + 1,
                        !.fb_tests = @ + 1,
                        !.test_passes = IF r.passed THEN @ + 1 ELSE @,
                        !.fb_last = IF r.passed THEN "test_pass" ELSE "test_fail"]
         /\ Exit(0)
    /\ UNCHANGED << target, max_attempts, expected_csv, attempt, sys_prompt,
                    user_prompt, code, parser_file, test_file, quarantine,
                    output, mismatches, raised, sent >>
    /\ UNCHANGED sanVars

\* agent.py:283-289
FallbackTest ==
    /\ pc = "fb_test"
    /\ \E r \in run_tests(parser_file, test_file, expected_csv, hist.tests + 1) :
         /\ passed' = r.passed
         /\ hist' = [hist EXCEPT
                        !.tests = @ + 1,
                        !.fb_tests = @ + 1,
                        !.test_passes = IF r.passed THEN @ + 1 ELSE @,
                        !.fb_last = IF r.passed THEN "test_pass" ELSE "test_fail"]
         /\ Exit(IF r.passed THEN 0 ELSE 1)
    /\ UNCHANGED << target, max_attempts, expected_csv, attempt, sys_prompt,
                    user_prompt, code, parser_file, test_file, quarantine,
                    output, mismatches, raised, sent >>
    /\ UNCHANGED sanVars

Next ==
    \/ Main
    \/ LoopNext
    \/ Generate
    \/ SyntaxCheck
    \/ Persist
    \/ Test
    \/ Extract
    \/ Repair
    \/ EnterFallback
    \/ FallbackGenerate
    \/ FallbackSyntax
    \/ FallbackPersist
    \/ FallbackTest

Spec == Init /\ [][Next]_vars

-----------------------------------------------------------------------------
(* Claims about the controller, under Spec *)

Done == pc = "done"

\* every attempt of the main loop has been made and has failed, by a syntax
\* failure or by a test failure
EveryAttemptFailed ==
    /\ max_attempts >= 1
    /\ hist.syntax_fails + hist.test_fails = max_attempts

\* C1, as stated: a run in which every one of the max_attempts attempts
\* failed, by a syntax failure or by a test failure, has made exactly one
\* regex-fallback generation when it ends.
C1_FallbackAfterEveryFailure ==
    (Done /\ EveryAttemptFailed) => hist.fb_gen = 1

\* C1, amended: there is never more than one regex-fallback generation; it
\* is made only after the test run of the final attempt failed and mismatch
\* extraction returned, and then it is always made before the run ends; a
\* run whose final attempt fails the syntax check, or whose candidate ends
\* the interpreter during mismatch extraction, makes none.
C1_FallbackOnlyAfterFinalTestFailure ==
    /\ hist.fb_gen <= 1
    /\ hist.fb_gen = 1 =>
          /\ EveryAttemptFailed
          /\ attempt = max_attempts
          /\ hist.main_last = "extracted"
    /\ (Done /\ hist.main_last = "extracted") => hist.fb_gen = 1
    /\ (Done /\ hist.main_last \in {"syntax_fail", "extract_exit"}) =>
          hist.fb_gen = 0

\* a run of two failed attempts, one of each kind, that went on to the fallback
C1_Witness ==
    /\ Done
    /\ max_attempts = 2
    /\ hist.syntax_fails = 1
    /\ hist.test_fails = 1
    /\ hist.fb_gen = 1

\* C2, as stated: whatever the attempt budget and the outcomes, the run
\* ends with exit code 0 only if some test run passed, and a run that ends
\* without a passing test run ends with exit code 1.
C2_ExitZeroIffSomeTestPassed ==
    Done => /\ exit_code \in {0, 1}
            /\ exit_code = 0 <=> hist.test_passes >= 1

\* C3: when the first candidate compiles and its test run passes, that step
\* ends the run with exit code 0, after one generation call and one test
\* run and with no repair or fallback prompt built; nothing follows the end
\* of a run.
C3_FirstCandidatePasses ==
    [][ /\ (pc = "test" /\ attempt = 1 /\ passed') =>
              /\ pc' = "done"
              /\ exit_code' = 0
              /\ hist'.gen = 1
              /\ hist'.tests = 1
              /\ hist'.repairs = 0
              /\ hist'.fallbacks = 0
              /\ hist'.fb_gen = 0
        /\ ~Done ]_vars

\* the run ended on the passing test of its first candidate
C3_Witness ==
    /\ Done
    /\ exit_code = 0
    /\ attempt = 1
    /\ hist.main_last = "test_pass"
    /\ hist.gen = 1
    /\ max_attempts = 2

RemoveAt(s, i) == SubSeq(s, 1, i - 1) \o SubSeq(s, i + 1, Len(s))

\* `actual` is `expected` with one row left out, the others equal and in order
MissingOneRow(actual, expected) ==
    \E i \in 1..Len(expected) : actual = RemoveAt(expected, i)

\* the candidate on disk compiles and its output misses one expected row
CandidateMissesOneRow ==
    /\ parser_file.exists
    /\ parser_file.content = code
    /\ code.sem.kind = "returns"
    /\ MissingOneRow(code.sem.rows, expected_csv)

\* C4, as stated: when a candidate compiles and its output misses one
\* expected row, the test run (of the template test) fails, the extracted
\* mismatch pairs are not empty, and the controller builds a repair prompt
\* that carries the transcript of that test run.
C4_MissingRowIsReported ==
    /\ (CandidateMissesOneRow /\ test_file = "template"
            /\ hist.main_last = "test_pass") => FALSE
    /\ (CandidateMissesOneRow /\ pc = "decide") =>
          /\ ~passed
          /\ mismatches.expected # << >>
          /\ mismatches.actual # << >>
    /\ (CandidateMissesOneRow /\ pc \in {"loop", "fb_generate"}
            /\ hist.main_last \in {"extracted", "repaired"}) =>
          /\ sys_prompt = "repair"
          /\ user_prompt.failure_trace = output

\* C7, as stated: a candidate that faults while it is loaded or while parse
\* runs during mismatch extraction, SystemExit included, does not end the
\* controller: the mismatches become empty and the controller goes on to
\* the repair prompt or the fallback.
C7_ExtractionFaultNeverFatal ==
    [][ (pc = "extract" /\ parser_file.content.sem.kind \in {"raises", "exits"}) =>
            /\ mismatches' = NoMismatches
            /\ pc' = "decide"
            /\ exit_code' = -1 ]_vars

\* C8: the companion test file is written only when it is missing: an
\* existing one is never changed or removed, by an attempt or by the
\* fallback, and a run writes it at most once, at the persist step of the
\* attempt that finds it missing.
C8_TestFileWrittenOnlyWhenMissing ==
    [][ /\ test_file # "absent" =>
              /\ test_file' = test_file
              /\ hist'.test_writes = hist.test_writes
        /\ hist'.test_writes # hist.test_writes =>
              /\ pc = "persist"
              /\ test_file = "absent"
              /\ test_file' = "template"
        /\ hist'.test_writes <= 1 ]_vars

\* the test file was created in attempt 1 and then went through the
\* persist step of attempt 2 and through the fallback
C8_Witness ==
    /\ Done
    /\ hist.test_writes = 1
    /\ hist.parser_writes = 3
    /\ hist.fb_last = "test_fail"
    /\ test_file = "template"

\* an attempt, or the fallback, has just ended with a generated candidate
AttemptEnded ==
    \/ pc = "loop" /\ attempt >= 1
    \/ Done /\ hist.gen >= 1 /\ raised = NoError

\* C9, as stated: after every attempt and after the fallback, the only
\* candidate file the controller has written is the one at the configured
\* destination, and it holds the candidate generated in that attempt.
C9_OnlyDestinationHoldsCandidate ==
    /\ ~quarantine.exists
    /\ AttemptEnded => parser_file = File(code)

\* C9, amended: the destination holds one file, overwritten without
\* versioning: the persist step of an attempt or of the fallback, reached
\* only by a candidate that compiles, replaces its content by that
\* candidate; nothing else changes it, so a candidate that fails the syntax
\* check leaves the previous one in place. The quarantine file is a second
\* candidate file: it is written only by a syntax failure of the final
\* attempt and holds the candidate that failed.
C9_DestinationReplacedByCompiledCandidate ==
    [][ /\ pc \in {"persist", "fb_persist"} =>
              /\ Compiles(code)
              /\ parser_file' = File(code)
        /\ parser_file' # parser_file => pc \in {"persist", "fb_persist"}
        /\ (pc \in {"syntax", "fb_syntax"} /\ ~Compiles(code)) =>
              parser_file' = parser_file
        /\ quarantine' # quarantine =>
              /\ pc = "syntax"
              /\ attempt = max_attempts
              /\ ~Compiles(code)
              /\ quarantine' = File(code)
              /\ pc' = "done" ]_vars

\* attempt 1 persisted its candidate, attempt 2 failed the syntax check and
\* was quarantined: two candidate files, the destination holding the older
C9_Witness ==
    /\ Done
    /\ max_attempts = 2
    /\ hist.parser_writes = 1
    /\ quarantine = File(code)
    /\ parser_file.exists
    /\ parser_file # quarantine
    /\ Compiles(parser_file.content)

\* C10: a reply with a status other than 200, in an attempt or in the
\* fallback, makes call_groq raise an error that carries the status code
\* and the body; the error ends the run with status 1 in that very step,
\* with no test run and no file written, and nothing follows the end of a
\* run.
C10_EndpointErrorIsFatal ==
    [][ /\ (pc \in {"generate", "fb_generate"} /\ sent'.status_code # HttpOk) =>
              /\ raised' = [kind |-> "RuntimeError",
                            status_code |-> sent'.status_code,
                            text |-> sent'.text]
              /\ pc' = "done"
              /\ exit_code' = 1
              /\ hist'.tests = hist.tests
              /\ hist'.parser_writes = hist.parser_writes
              /\ << code, parser_file, test_file, quarantine >>' =
                     << code, parser_file, test_file, quarantine >>
        /\ (pc \in {"generate", "fb_generate"} /\ sent'.status_code = HttpOk) =>
              /\ raised' = NoError
              /\ pc' # "done"
        /\ ~Done ]_vars

\* the endpoint answered 429 to the fallback request
C10_Witness ==
    /\ Done
    /\ exit_code = 1
    /\ hist.fb_gen = 1
    /\ hist.fb_last = "gen_error"
    /\ raised.kind = "RuntimeError"
    /\ raised.status_code = 429
    /\ raised.text = "rate limit exceeded"

\* C12: a target that is not in the configuration table ends the run with
\* exit code 1 and nothing done: no request to the endpoint, no file
\* written, no test run.
C12_UnknownTargetDoesNothing ==
    target \notin BANK_CONFIG =>
        /\ pc \in {"main", "done"}
        /\ Done => exit_code = 1
        /\ hist = NoHistory
        /\ sent = NoExchange
        /\ quarantine = Absent
        /\ parser_file \in {Absent, ShippedParser}
        /\ code = NoCode

\* the run for an unknown target has ended
C12_Witness ==
    /\ Done
    /\ target \notin BANK_CONFIG
    /\ exit_code = 1

\* C13: a passing test run of the main loop, in whatever attempt, ends the
\* run in that step with exit code 0, with no generation call, test run,
\* mismatch extraction or file write after it; nothing follows the end of
\* a run.
C13_PassEndsTheRun ==
    [][ /\ (pc = "test" /\ passed') =>
              /\ pc' = "done"
              /\ exit_code' = 0
              /\ hist'.tests = hist.tests + 1
              /\ hist'.gen = hist.gen
              /\ hist'.fb_gen = hist.fb_gen
              /\ hist'.extracts = hist.extracts
              /\ hist'.parser_writes = hist.parser_writes
              /\ hist'.fallbacks = hist.fallbacks
              /\ hist'.repairs = hist.repairs
              /\ << parser_file, test_file, quarantine, mismatches >>' =
                     << parser_file, test_file, quarantine, mismatches >>
        /\ Done => UNCHANGED vars ]_vars

\* the test run of attempt 2 passed after the one of attempt 1 had failed
C13_Witness ==
    /\ Done
    /\ exit_code = 0
    /\ attempt = 2
    /\ hist.main_last = "test_pass"
    /\ hist.test_fails = 1
    /\ hist.extracts = 1
    /\ hist.gen = 2

\* C14: a syntax failure of the final attempt writes the invalid candidate
\* to the quarantine file and ends the run with exit code 1; the candidate
\* is not written to parser_path, and no test run and no fallback
\* generation are made for it.  FinalSyntaxFailure: the last step of the
\* main loop was a failed syntax check in the final attempt (a failed check
\* of the attempt before is followed by the request of the final attempt).
FinalSyntaxFailure ==
    /\ hist.main_last = "syntax_fail"
    /\ attempt = max_attempts
    /\ pc # "generate"

C14_FinalSyntaxFailureQuarantines ==
    /\ hist.quarantine_writes >= 1 <=> FinalSyntaxFailure
    /\ quarantine.exists <=> FinalSyntaxFailure
    /\ FinalSyntaxFailure =>
        /\ Done
        /\ exit_code = 1
        /\ ~Compiles(code)
        /\ quarantine = File(code)
        /\ hist.quarantine_writes = 1
        /\ parser_file # File(code)
        /\ hist.parser_writes = hist.tests
        /\ hist.tests = hist.test_fails
        /\ hist.fallbacks = 0
        /\ hist.fb_gen = 0
        /\ hist.fb_tests = 0

\* attempt 1 failed its test, attempt 2, the final one, failed the syntax check
C14_Witness ==
    /\ Done
    /\ max_attempts = 2
    /\ attempt = 2
    /\ hist.main_last = "syntax_fail"
    /\ hist.test_fails = 1
    /\ quarantine.exists

\* C15: a failed syntax check of an attempt that is not the final one
\* writes no file and runs no test; the loop goes on to the next attempt,
\* whose request carries the fix-the-syntax instruction as system prompt
\* and, as user prompt, the failing candidate itself and nothing else.
C15_SyntaxFailureAsksForFix ==
    [][ /\ (pc = "syntax" /\ ~Compiles(code) /\ attempt < max_attempts) =>
              /\ pc' = "loop"
              /\ hist'.main_last = "syntax_fail"
              /\ << parser_file, test_file, quarantine >>' =
                     << parser_file, test_file, quarantine >>
              /\ hist'.parser_writes = hist.parser_writes
              /\ hist'.quarantine_writes = hist.quarantine_writes
              /\ hist'.test_writes = hist.test_writes
              /\ hist'.tests = hist.tests
        /\ (pc = "loop" /\ hist.main_last = "syntax_fail") =>
              /\ pc' = "generate"
              /\ attempt' = attempt + 1
              /\ code' = code
        /\ (pc = "generate" /\ hist.main_last = "syntax_fail") =>
              /\ hist'.gen = hist.gen + 1
              /\ sent'.system = "syntax_fix"
              /\ sent'.user = UserPrompt("raw_code", code, NoOutput, NoTable)
              /\ ~Compiles(code)
              /\ parser_file # File(code) ]_vars

\* the request of attempt 2 asked for a fix of the syntax of attempt 1
C15_Witness ==
    /\ pc = "syntax"
    /\ attempt = 2
    /\ hist.syntax_fails = 1
    /\ hist.gen = 2
    /\ sent.system = "syntax_fix"
    /\ sent.user.kind = "raw_code"
    /\ hist.parser_writes = 0
    /\ hist.tests = 0

\* C16: after a failed test run of an attempt that is not the final one,
\* the request of the next attempt is the repair prompt of the failed
\* attempt: it carries that attempt's candidate, the transcript of that
\* attempt's test run and the mismatch rows extracted from that candidate,
\* or the placeholder when no mismatch rows were extracted.
C16_RepairPromptOfSameAttempt ==
    [][ /\ (pc = "loop" /\ hist.main_last = "repaired") =>
              /\ pc' = "generate"
              /\ attempt' = attempt + 1
              /\ << code, output, mismatches >>' = << code, output, mismatches >>
        /\ (pc = "generate" /\ hist.main_last = "repaired") =>
              LET e == ExtractMismatches(File(code), expected_csv)
              IN  /\ hist'.gen = hist.gen + 1
                  /\ hist.failed_at = attempt - 1
                  /\ parser_file = File(code)
                  /\ output.run = hist.tests
                  /\ ~e.exited
                  /\ mismatches = e.mismatches
                  /\ sent'.system = "repair"
                  /\ sent'.user.kind = "repair"
                  /\ sent'.user.current_code = code
                  /\ sent'.user.failure_trace = output
                  /\ sent'.user.mismatch_rows =
                         IF mismatches.expected = << >>
                         THEN [placeholder |-> TRUE, rows |-> << >>]
                         ELSE [placeholder |-> FALSE,
                               rows |-> Zip(mismatches.expected,
                                            mismatches.actual)] ]_vars

\* the request of attempt 2 carried mismatch rows of the candidate of attempt 1
C16_Witness ==
    /\ pc = "syntax"
    /\ attempt = 2
    /\ hist.test_fails = 1
    /\ sent.system = "repair"
    /\ sent.user.failure_trace.run = 1
    /\ ~sent.user.mismatch_rows.placeholder
    /\ Len(sent.user.mismatch_rows.rows) >= 1

\* C17, as stated: a finished run that entered the regex fallback made one
\* fallback generation and one fallback syntax check; after a syntax
\* failure it ended with exit code 1 with nothing written or tested, and
\* otherwise it wrote the candidate to parser_path, ran the tests once and
\* ended with exit code 0 exactly when they passed.
C17_FallbackAlwaysSyntaxChecks ==
    (Done /\ hist.fallbacks = 1) =>
        /\ hist.fb_gen = 1
        /\ hist.fb_syntax = 1
        /\ IF hist.fb_last = "syntax_fail"
           THEN /\ exit_code = 1
                /\ hist.fb_writes = 0
                /\ hist.fb_tests = 0
           ELSE /\ hist.fb_writes = 1
                /\ hist.fb_tests = 1
                /\ parser_file = File(code)
                /\ exit_code = 0 <=> passed

\* C17, amended: the regex fallback makes one generation request; when the
\* endpoint answers with an error the run ends there with an uncaught
\* RuntimeError (exit code 1) and no syntax check; otherwise there is one
\* syntax check, and a failure of it ends the run with exit code 1 with
\* nothing written or tested, while a success is followed by one write to
\* parser_path and one test run, whose verdict decides the exit code.
\* No step of the fallback happens twice.
C17_FallbackRunsOnce ==
    /\ hist.fallbacks <= 1
    /\ hist.fb_gen <= hist.fallbacks
    /\ hist.fb_syntax <= hist.fb_gen
    /\ hist.fb_writes <= hist.fb_syntax
    /\ hist.fb_tests <= hist.fb_writes
    /\ hist.fallbacks = 1 =>
          /\ attempt = max_attempts
          /\ hist.failed_at = max_attempts
          /\ hist.main_last = "extracted"
          /\ hist.gen = max_attempts
    /\ (Done /\ hist.fallbacks = 1) =>
          /\ hist.fb_gen = 1
          /\ CASE hist.fb_last = "gen_error" ->
                    /\ exit_code = 1
                    /\ raised.kind = "RuntimeError"
                    /\ hist.fb_syntax = 0
                    /\ hist.fb_writes = 0
                    /\ hist.fb_tests = 0
               [] hist.fb_last = "syntax_fail" ->
                    /\ exit_code = 1
                    /\ ~Compiles(code)
                    /\ parser_file # File(code)
                    /\ hist.fb_syntax = 1
                    /\ hist.fb_writes = 0
                    /\ hist.fb_tests = 0
               [] hist.fb_last \in {"test_pass", "test_fail"} ->
                    /\ Compiles(code)
                    /\ parser_file = File(code)
                    /\ hist.fb_syntax = 1
                    /\ hist.fb_writes = 1
                    /\ hist.fb_tests = 1
                    /\ passed <=> hist.fb_last = "test_pass"
                    /\ exit_code = IF passed THEN 0 ELSE 1
               [] OTHER -> FALSE

\* the candidate of the fallback compiled, was written and passed the tests
C17_Witness ==
    /\ Done
    /\ hist.fallbacks = 1
    /\ hist.fb_last = "test_pass"
    /\ hist.fb_syntax = 1
    /\ hist.fb_tests = 1
    /\ exit_code = 0

\* Steps left in the current attempt, or in the fallback, at each position
\* of main (agent.py:198-291): an attempt runs generate, syntax, persist,
\* test, extract, decide; the fallback runs its four steps after decide.
StepsLeft ==
    CASE pc = "main" -> 5
      [] pc = "loop" -> 4
      [] pc = "generate" -> 10
      [] pc = "syntax" -> 9
      [] pc = "persist" -> 8
      [] pc = "test" -> 7
      [] pc = "extract" -> 6
      [] pc = "decide" -> 5
      [] pc = "fb_generate" -> 4
      [] pc = "fb_syntax" -> 3
      [] pc = "fb_persist" -> 2
      [] pc = "fb_test" -> 1
      [] pc = "done" -> 0

\* an upper bound of the number of steps a run has left
Variant == (max_attempts - attempt) * 7 + StepsLeft

\* C18: every run ends, whatever the attempt budget and whatever the
\* endpoint, the syntax checks, the test runs and the candidates do: a
\* run that has not ended can always take a step, every step lowers a
\* natural number (Variant), and the main loop never starts more than
\* max_attempts attempts nor makes more than max_attempts requests.
C18_AlwaysTerminates ==
    /\ [](/\ Variant \in Nat
          /\ attempt <= max_attempts
          /\ hist.gen <= attempt
          /\ Done \/ ENABLED Next)
    /\ [][Variant' < Variant]_vars

\* the longest run: every attempt failed its test and so did the fallback
C18_Witness ==
    /\ Done
    /\ max_attempts = 2
    /\ attempt = 2
    /\ hist.gen = 2
    /\ hist.repairs = 1
    /\ hist.fb_last = "test_fail"
    /\ exit_code = 1

\* C19: whatever the controller has written to parser_path compiled; a
\* test run is made only right after the write of the candidate of the same
\* attempt (or of the fallback), one test run per write, so that the file
\* under test holds that candidate; a candidate that failed the syntax
\* check is neither at parser_path nor tested.
C19_OnlyCompiledCandidatesAreTested ==
    /\ hist.parser_writes >= 1 =>
          /\ parser_file.exists
          /\ Compiles(parser_file.content)
    /\ pc \in {"test", "fb_test"} =>
          /\ parser_file = File(code)
          /\ Compiles(code)
          /\ hist.parser_writes = hist.tests + 1
    /\ pc = "test" =>
          /\ hist.main_last = "persisted"
          /\ hist.gen = attempt
          /\ sent.status_code = HttpOk
    /\ pc = "fb_test" =>
          /\ hist.fb_last = "persisted"
          /\ hist.fb_gen = 1
          /\ sent.system = "fallback"
    /\ pc \notin {"test", "fb_test"} => hist.parser_writes = hist.tests
    /\ ~Compiles(code) => parser_file # File(code)

\* the candidate of attempt 2 has been written and is about to be tested;
\* the one of attempt 1 had been written and tested before it
C19_Witness ==
    /\ pc = "test"
    /\ attempt = 2
    /\ hist.parser_writes = 2
    /\ hist.tests = 1
    /\ parser_file = File(code)
    /\ sent.system = "repair"

\* C20: a run makes at most max_attempts + 1 generation requests and at
\* most max_attempts + 1 test runs; the request of the fallback comes only
\* after max_attempts requests of the main loop and after the test run of
\* attempt max_attempts has failed.
C20_CallBudget ==
    /\ hist.gen <= max_attempts
    /\ hist.fb_gen <= 1
    /\ hist.gen + hist.fb_gen <= max_attempts + 1
    /\ hist.tests <= max_attempts + 1
    /\ hist.fb_gen >= 1 =>
          /\ hist.gen = max_attempts
          /\ attempt = max_attempts
          /\ hist.failed_at = max_attempts
          /\ hist.test_fails >= 1
          /\ hist.test_passes <= hist.fb_tests

\* a run that used its whole budget of requests and test runs
C20_Witness ==
    /\ Done
    /\ max_attempts = 2
    /\ hist.gen = 2
    /\ hist.fb_gen = 1
    /\ hist.tests = 3
    /\ hist.fb_tests = 1

-----------------------------------------------------------------------------
(* SpecSanitize: strip_code_fences applied once and twice to any text *)

CtlIdle ==
    /\ target = "icici"
    /\ max_attempts = 0
    /\ expected_csv = << >>
    /\ attempt = 0
    /\ sys_prompt = "none"
    /\ user_prompt = NoPrompt
    /\ code = NoCode
    /\ parser_file = Absent
    /\ test_file = "absent"
    /\ quarantine = Absent
    /\ passed = FALSE
    /\ output = NoOutput
    /\ mismatches = NoMismatches
    /\ exit_code = -1
    /\ raised = NoError
    /\ sent = NoExchange
    /\ hist = NoHistory

InitSanitize ==
    /\ pc = "s_input"
    /\ text \in Texts
    /\ once = NoText
    /\ twice = NoText
    /\ CtlIdle

Sanitize ==
    /\ pc = "s_input"
    /\ once' = strip_code_fences(text)
    /\ pc' = "s_once"
    /\ UNCHANGED << text, twice >>
    /\ UNCHANGED ctlVars

Resanitize ==
    /\ pc = "s_once"
    /\ twice' = strip_code_fences(once)
    /\ pc' = "s_twice"
    /\ UNCHANGED << text, once >>
    /\ UNCHANGED ctlVars

NextSanitize == Sanitize \/ Resanitize

SpecSanitize == InitSanitize /\ [][NextSanitize]_vars

-----------------------------------------------------------------------------
(* Claims about strip_code_fences, under SpecSanitize *)

Fence == << Tick, Tick, Tick >>

FenceAt(t, i) ==
    /\ i + Len(Fence) - 1 <= Len(t)
    /\ \A k \in 1..Len(Fence) : t[i + k - 1] = Fence[k]

\* the first position from i on where a fence starts, 0 when there is none
RECURSIVE NextFence(_, _)
NextFence(t, i) ==
    IF i > Len(t) THEN 0
    ELSE IF FenceAt(t, i) THEN i ELSE NextFence(t, i + 1)

\* the contents of the fenced blocks of t from position i on: an opening
\* fence, the content, the next fence closing it
RECURSIVE FencedBlocksFrom(_, _)
FencedBlocksFrom(t, i) ==
    LET open == NextFence(t, i)
        close == IF open = 0 THEN 0 ELSE NextFence(t, open + Len(Fence))
    IN  IF open = 0 \/ close = 0 THEN << >>
        ELSE << SubSeq(t, open + Len(Fence), close - 1) >>
                 \o FencedBlocksFrom(t, close + Len(Fence))

FencedBlocks(t) == FencedBlocksFrom(t, 1)

LargestBlocks(t) ==
    LET blocks == FencedBlocks(t)
    IN  {blocks[i] : i \in {j \in 1..Len(blocks) :
                               \A k \in 1..Len(blocks) :
                                   Len(blocks[k]) <= Len(blocks[j])}}

\* C5, as stated: strip_code_fences returns the contents of the largest
\* fenced block (as written or trimmed) when the text has a fenced block,
\* and the trimmed text otherwise.
C5_LargestFencedBlockOrTrimmed ==
    pc \in {"s_once", "s_twice"} =>
        IF FencedBlocks(text) # << >>
        THEN \E b \in LargestBlocks(text) : once \in {b, Strip(b)}
        ELSE once = Strip(text)

\* C6: sanitizing sanitized text returns it unchanged.
C6_Idempotent ==
    pc = "s_twice" => twice = once

\* a text that sanitizing changed, sanitized again
C6_Witness ==
    /\ pc = "s_twice"
    /\ once # text
    /\ once # << >>
    /\ FindAll(text) = << >>
    /\ Tick \in {text[i] : i \in 1..Len(text)}

-----------------------------------------------------------------------------
(* SpecMismatch: mismatch extraction (agent.py:244-258) and the table of   *)
(* the repair prompt on fixtures and outputs of up to MaxDiffRows rows     *)

LongTables == UNION {[1..n -> RowVals] : n \in 0..MaxDiffRows}

InitMismatch ==
    /\ pc = "m_input"
    /\ target = "icici"
    /\ max_attempts = 0
    /\ expected_csv \in LongTables
    /\ attempt = 0
    /\ sys_prompt = "none"
    /\ user_prompt = NoPrompt
    /\ code \in {[text |-> << "x" >>, sem |-> Sem("returns", rows, 0)] :
                    rows \in LongTables}
                \cup {[text |-> << "x" >>, sem |-> SemRaises]}
    /\ parser_file = File(code)
    /\ test_file = "template"
    /\ quarantine = Absent
    /\ passed = FALSE
    /\ output = NoOutput
    /\ mismatches = NoMismatches
    /\ exit_code = -1
    /\ raised = NoError
    /\ sent = NoExchange
    /\ hist = NoHistory
    /\ text = NoText
    /\ once = NoText
    /\ twice = NoText

\* agent.py:244-258 on the candidate on disk
ExtractRows ==
    /\ pc = "m_input"
    /\ mismatches' = ExtractMismatches(parser_file, expected_csv).mismatches
    /\ pc' = "m_extracted"
    /\ UNCHANGED << target, max_attempts, expected_csv, attempt, sys_prompt,
                    user_prompt, code, parser_file, test_file, quarantine,
                    passed, output, exit_code, raised, sent, hist >>
    /\ UNCHANGED sanVars

\* agent.py:291 on the extracted mismatches
RenderRepair ==
    /\ pc = "m_extracted"
    /\ sys_prompt' = build_repair_prompt(code, output, mismatches)[1]
    /\ user_prompt' = build_repair_prompt(code, output, mismatches)[2]
    /\ pc' = "m_rendered"
    /\ UNCHANGED << target, max_attempts, expected_csv, attempt, code,
                    parser_file, test_file, quarantine, passed, output,
                    mismatches, exit_code, raised, sent, hist >>
    /\ UNCHANGED sanVars

NextMismatch == ExtractRows \/ RenderRepair

SpecMismatch == InitMismatch /\ [][NextMismatch]_vars

-----------------------------------------------------------------------------
(* Claims about mismatch extraction, under SpecMismatch *)

\* the rows of the fixture and of the output that differ, pair by pair
DifferingRows ==
    IF code.sem.kind = "returns"
    THEN Differing(Zip(expected_csv, code.sem.rows))
    ELSE << >>

\* C11: mismatch extraction yields at most 5 expected/actual pairs however
\* many rows differ, and as many expected rows as actual rows; the table of
\* the repair prompt has as many rows.
C11_AtMostFivePairs ==
    /\ pc \in {"m_extracted", "m_rendered"} =>
          /\ Len(mismatches.expected) <= 5
          /\ Len(mismatches.actual) = Len(mismatches.expected)
          /\ Len(mismatches.expected) = Min(5, Len(DifferingRows))
    /\ pc = "m_rendered" =>
          Len(user_prompt.mismatch_rows.rows) = Len(mismatches.expected)

\* more than 5 rows differ and 5 pairs were extracted
C11_Witness ==
    /\ pc = "m_rendered"
    /\ Len(DifferingRows) > 5
    /\ Len(mismatches.expected) = 5
    /\ Len(mismatches.actual) = 5

=============================================================================
